---- MODULE Spec2Model ----
(***************************************************************************)
(* Cursor-based pagination of the Edlink Graph API (edlink-effect-sdk).    *)
(*                                                                         *)
(* One traversal is one stream built by createPaginatedStream: a           *)
(* Stream.unfoldEffect over a PaginationState, flattened item by item.     *)
(* The HTTP server and the transport are the environment: the answer to    *)
(* each request is chosen when the request completes.                      *)
(***************************************************************************)
EXTENDS Integers, Sequences, FiniteSets, TLC

VARIABLES
    edlinkConfig,      \* the configuration injected into makeEdlinkClient
    path,              \* resource path the stream was created for
    arg,               \* the optional PaginationConfig argument as passed
    state,             \* PaginationState threaded through Stream.unfoldEffect
    status,            \* position of the traversal
    buffer,            \* items of the current page not yet handed to the consumer
    emitted,           \* items handed to the consumer so far
    requests,          \* URLs requested so far, in order
    responses,         \* outcomes of the completed requests, in order
    error,             \* the error the stream failed with, if any
    other,             \* a second stream of the same client: its whole traversal
    running,           \* which of the two streams the variables above belong to
    merged             \* output of Stream.merge over the two streams

vars == <<edlinkConfig, path, arg, state, status, buffer, emitted,
          requests, responses, error, other, running, merged>>

\* the part of the state that exists only when two streams are run together
pairVars == <<other, running, merged>>

----------------------------------------------------------------------------
(* Bounds of the model *)

NumUrls == 2            \* distinct URLs the server knows (the start URL and cursors)
MaxPageLen == 3         \* longest page the server returns
MaxPagesLimit == 3      \* largest maxPages tried
MaxRecordsLimit == 4    \* largest maxRecords tried
MaxFetches == 3         \* cap on the number of requests of one traversal
PairPageLen == 2        \* longest page served while two streams run together
PairFetches == 2        \* cap on the requests of each of two streams run together

----------------------------------------------------------------------------
(* Values *)

Null == "null"                  \* JSON null cursor
Undefined == "undefined"        \* absent field / omitted argument
UndefinedConfig == [type |-> "undefined"]

DefaultApiBaseUrl == "https://ed.link/api"
DefaultMaxPagesDefault == 3

Paths == {"/events", "/people"}

PagesConfig(n) == [type |-> "pages", maxPages |-> n]
RecordsConfig(m) == [type |-> "records", maxRecords |-> m]
AllConfig == [type |-> "all"]

PaginationConfigs ==
    {PagesConfig(n) : n \in (-1)..MaxPagesLimit}
        \cup {RecordsConfig(m) : m \in (-1)..MaxRecordsLimit}
        \cup {AllConfig}

Min(a, b) == IF a <= b THEN a ELSE b

Take(s, n) == SubSeq(s, 1, Min(Len(s), IF n < 0 THEN 0 ELSE n))

IsPrefix(s, t) == Len(s) <= Len(t) /\ SubSeq(t, 1, Len(s)) = s

----------------------------------------------------------------------------
(* Strategies *)

isPaginateByPages(config) ==
    config.type = "pages" /\ "maxPages" \in DOMAIN config

isPaginateByRecords(config) ==
    config.type = "records" /\ "maxRecords" \in DOMAIN config

isPaginateAll(config) == config.type = "all"

\* variant: the limit test admits one page too many
byPagesShouldContinueInclusive(st, config) == st.pageCount <= config.maxPages

\* variant: a zero limit is taken as "not set" (maxPages || default)
byPagesShouldContinueFalsyZero(st, config) ==
    st.pageCount < (IF config.maxPages = 0 THEN 3 ELSE config.maxPages)

\* variant: the page limit is never looked at
byPagesShouldContinueAlways(st, config) == TRUE

byPagesShouldContinue(st, config) == st.pageCount < config.maxPages

\* variant: the record limit stops the traversal only when it is hit exactly
byRecordsShouldContinueUntilEqual(st, config) ==
    st.recordCount # config.maxRecords

\* variant: the record limit is tested inclusively
byRecordsShouldContinueInclusive(st, config) ==
    st.recordCount <= config.maxRecords

byRecordsShouldContinue(st, config) == st.recordCount < config.maxRecords

\* variant: the policy all gives up after two pages
allShouldContinueCapped(st, config) == st.pageCount < 2

allShouldContinue(st, config) == TRUE

\* variant: a fetched page is not counted
updateStateNoPage(st, itemCount) ==
    [nextUrl |-> st.nextUrl,
     pageCount |-> st.pageCount,
     recordCount |-> st.recordCount + itemCount]

\* variant: recordCount is the size of the last page, not a running total
updateStateLastPage(st, itemCount) ==
    [nextUrl |-> st.nextUrl,
     pageCount |-> st.pageCount + 1,
     recordCount |-> itemCount]

updateState(st, itemCount) ==
    [nextUrl |-> st.nextUrl,
     pageCount |-> st.pageCount + 1,
     recordCount |-> st.recordCount + itemCount]

\* variant: the slice keeps the last n items instead of the first n
Slice0Tail(items, n) ==
    SubSeq(items, Len(items) - Min(n, Len(items)) + 1, Len(items))

\* Array.prototype.slice(0, n) for an integer n
Slice0(items, n) ==
    IF n >= 0 THEN SubSeq(items, 1, Min(n, Len(items)))
    ELSE SubSeq(items, 1, IF Len(items) + n > 0 THEN Len(items) + n ELSE 0)

\* variant: the page limit is applied to the items of a page
byPagesCalculateItemsToEmitCut(items, st, config) ==
    Slice0(items, config.maxPages)

byPagesCalculateItemsToEmit(items, st, config) == items

\* variant: the page is never cut to the remaining allowance
byRecordsCalculateItemsToEmitWhole(items, st, config) == items

\* variant: the cut page is one item short of the allowance
byRecordsCalculateItemsToEmitShort(items, st, config) ==
    LET newRecordCount == st.recordCount + Len(items)
    IN IF newRecordCount <= config.maxRecords
       THEN items
       ELSE Slice0(items, config.maxRecords - st.recordCount - 1)

byRecordsCalculateItemsToEmit(items, st, config) ==
    LET newRecordCount == st.recordCount + Len(items)
    IN IF newRecordCount <= config.maxRecords
       THEN items
       ELSE Slice0(items, config.maxRecords - st.recordCount)

allCalculateItemsToEmit(items, st, config) == items

\* nextCursor ?? ''
\* variant: only a null cursor ends the pages, a missing one is followed
byPagesGetNextUrlNullOnly(nextCursor, newRecordCount, config) ==
    IF nextCursor = Null THEN "" ELSE nextCursor

byPagesGetNextUrl(nextCursor, newRecordCount, config) ==
    IF nextCursor \in {Null, Undefined} THEN "" ELSE nextCursor

\* variant: the cursor is dropped only once the limit is exceeded
byRecordsGetNextUrlExclusive(nextCursor, newRecordCount, config) ==
    IF newRecordCount > config.maxRecords
          \/ nextCursor \in {Null, Undefined, ""}
    THEN ""
    ELSE nextCursor

byRecordsGetNextUrl(nextCursor, newRecordCount, config) ==
    IF newRecordCount >= config.maxRecords
          \/ nextCursor \in {Null, Undefined, ""}
    THEN ""
    ELSE nextCursor

allGetNextUrl(nextCursor, newRecordCount, config) ==
    IF nextCursor \in {Null, Undefined} THEN "" ELSE nextCursor

\* variant: a descriptor no guard accepts is treated as the policy all
selectStrategyLenient(config) ==
    IF isPaginateByPages(config) THEN "byPagesStrategy"
    ELSE IF isPaginateByRecords(config) THEN "byRecordsStrategy"
    ELSE "allStrategy"

selectStrategy(config) ==
    IF isPaginateByPages(config) THEN "byPagesStrategy"
    ELSE IF isPaginateByRecords(config) THEN "byRecordsStrategy"
    ELSE IF isPaginateAll(config) THEN "allStrategy"
    ELSE "throw"

shouldContinue(strategy, st, config) ==
    CASE strategy = "byPagesStrategy" -> byPagesShouldContinue(st, config)
      [] strategy = "byRecordsStrategy" -> byRecordsShouldContinue(st, config)
      [] strategy = "allStrategy" -> allShouldContinue(st, config)

calculateItemsToEmit(strategy, items, st, config) ==
    CASE strategy = "byPagesStrategy" -> byPagesCalculateItemsToEmit(items, st, config)
      [] strategy = "byRecordsStrategy" -> byRecordsCalculateItemsToEmit(items, st, config)
      [] strategy = "allStrategy" -> allCalculateItemsToEmit(items, st, config)

getNextUrl(strategy, nextCursor, newRecordCount, config) ==
    CASE strategy = "byPagesStrategy" -> byPagesGetNextUrl(nextCursor, newRecordCount, config)
      [] strategy = "byRecordsStrategy" -> byRecordsGetNextUrl(nextCursor, newRecordCount, config)
      [] strategy = "allStrategy" -> allGetNextUrl(nextCursor, newRecordCount, config)

----------------------------------------------------------------------------
(* The client *)

\* variant: the default ignores the configured page count
defaultPaginationConfigFixed(cfg) ==
    [type |-> "pages", maxPages |-> DefaultMaxPagesDefault]

defaultPaginationConfig(cfg) ==
    [type |-> "pages", maxPages |-> cfg.defaultMaxPages]

\* the default parameter value of createPaginatedStream
paginationConfigOf(a, cfg) ==
    IF a = UndefinedConfig THEN defaultPaginationConfig(cfg) ELSE a

StartUrl(cfg, p) == cfg.apiBaseUrl \o "/v2/graph" \o p

initialState(cfg, p) ==
    [nextUrl |-> StartUrl(cfg, p), pageCount |-> 0, recordCount |-> 0]

----------------------------------------------------------------------------
(* The environment: the Edlink server and the HTTP transport *)

\* the URLs the server hands out: the start URL and the cursors p2, p3, ...
UrlOf(cfg, p, k) == IF k = 1 THEN StartUrl(cfg, p) ELSE "p" \o ToString(k)

ServerUrls(cfg, p) == {UrlOf(cfg, p, k) : k \in 1..NumUrls}

UrlIndex(cfg, p, url) == CHOOSE k \in 1..NumUrls : UrlOf(cfg, p, k) = url

\* the i-th record of the page served at the k-th URL
Item(k, i) == 10 * k + i

ItemsAt(k, n) == [i \in 1..n |-> Item(k, i)]

\* decoded bodies the server may answer with at the k-th URL
ServerPages(cfg, p, k) ==
    {[ok |-> TRUE, hasData |-> TRUE, data |-> ItemsAt(k, n), next |-> c] :
        n \in 0..MaxPageLen,
        c \in {Null, Undefined, ""} \cup ServerUrls(cfg, p)}
    \cup
    {[ok |-> TRUE, hasData |-> FALSE, data |-> <<>>, next |-> c] :
        c \in {Null, Undefined, ""} \cup ServerUrls(cfg, p)}

\* ways httpClient.execute / filterStatusOk / response.json fail
FailReasons == {"Transport", "StatusCode", "Decode"}

\* the HttpClientError of a failed request; whether its message text
\* names the request URL is the HTTP library's choice
Causes(url) ==
    {[reason |-> r, message |-> IF namesUrl THEN <<r, url>> ELSE <<r>>] :
        r \in FailReasons, namesUrl \in BOOLEAN}

NoError == [name |-> "none", message |-> <<>>]

\* Stream.mapError((error) => new Error(`Failed to fetch from Edlink API: ${error.message}`))
mapError(cause) ==
    [name |-> "Error",
     message |-> <<"Failed to fetch from Edlink API: ">> \o cause.message]

----------------------------------------------------------------------------
(* Initial state: a stream returned by getEventsStream / getPeopleStream *)

\* no second stream has been created
NoOther == [status |-> "Absent"]

EdlinkConfigs ==
    {[apiBaseUrl |-> DefaultApiBaseUrl, defaultMaxPages |-> d] :
        d \in {DefaultMaxPagesDefault - 1, DefaultMaxPagesDefault}}

Init ==
    /\ edlinkConfig \in EdlinkConfigs
    /\ path \in Paths
    /\ arg \in PaginationConfigs \cup {UndefinedConfig}
    /\ state = initialState(edlinkConfig, path)
    /\ status = "Active"
    /\ buffer = <<>>
    /\ emitted = <<>>
    /\ requests = <<>>
    /\ responses = <<>>
    /\ error = NoError
    /\ other = NoOther
    /\ running = 1
    /\ merged = <<>>

paginationConfig == paginationConfigOf(arg, edlinkConfig)

\* a stream of the live client; defaultMaxPages is read only when no
\* descriptor is passed, so it is varied only then
InitLive ==
    /\ Init
    /\ arg # UndefinedConfig
         => edlinkConfig.defaultMaxPages = DefaultMaxPagesDefault

----------------------------------------------------------------------------
(* The unfold step, split at its one suspension point (the HTTP request) *)

\* variant: the unfold function runs ahead of the consumer
PullingAhead == status = "Active"

\* variant: a failed stream is pulled again, which repeats the request
PullingRetry == status \in {"Active", "Failed"} /\ buffer = <<>>

\* the consumer pulls and nothing is buffered: the unfold function runs
Pulling == status = "Active" /\ buffer = <<>>

\* if (!state.nextUrl) return Option.none()
StepNoUrl ==
    /\ Pulling
    /\ state.nextUrl = ""
    /\ status' = "Done"
    /\ UNCHANGED <<edlinkConfig, path, arg, state, buffer, emitted,
                   requests, responses, error>>

\* variant: a limit that is reached is reported as a failure of the stream
StepPolicyStopAsError(config) ==
    /\ status = "Active" /\ buffer = <<>>
    /\ state.nextUrl # ""
    /\ ~shouldContinue(selectStrategy(config), state, config)
    /\ status' = "Failed"
    /\ error' = [name |-> "Error", message |-> <<"limit reached">>]
    /\ UNCHANGED <<edlinkConfig, path, arg, state, buffer, emitted,
                   requests, responses>>

\* if (!strategy.shouldContinue(state, paginationConfig)) return Option.none()
StepPolicyStop(config) ==
    /\ Pulling
    /\ state.nextUrl # ""
    /\ ~shouldContinue(selectStrategy(config), state, config)
    /\ status' = "Done"
    /\ UNCHANGED <<edlinkConfig, path, arg, state, buffer, emitted,
                   requests, responses, error>>

\* variant: the URL is built again from the resource path at every request
StepRequestFromPath(config) ==
    /\ status = "Active" /\ buffer = <<>>
    /\ state.nextUrl # ""
    /\ shouldContinue(selectStrategy(config), state, config)
    /\ Len(requests) < MaxFetches
    /\ requests' = Append(requests, StartUrl(edlinkConfig, path))
    /\ status' = "Fetching"
    /\ UNCHANGED <<edlinkConfig, path, arg, state, buffer, emitted,
                   responses, error>>

\* variant: the next page is requested while items are still buffered
StepRequestPrefetch(config) ==
    /\ status = "Active"
    /\ state.nextUrl # ""
    /\ shouldContinue(selectStrategy(config), state, config)
    /\ Len(requests) < MaxFetches
    /\ requests' = Append(requests, state.nextUrl)
    /\ status' = "Fetching"
    /\ UNCHANGED <<edlinkConfig, path, arg, state, buffer, emitted,
                   responses, error>>

\* variant: the policy is consulted only after the page has been requested
StepRequestUnchecked(config) ==
    /\ status = "Active" /\ buffer = <<>>
    /\ state.nextUrl # ""
    /\ Len(requests) < MaxFetches
    /\ requests' = Append(requests, state.nextUrl)
    /\ status' = "Fetching"
    /\ UNCHANGED <<edlinkConfig, path, arg, state, buffer, emitted,
                   responses, error>>

\* httpClient.execute(HttpClientRequest.get(state.nextUrl))
StepRequest(config) ==
    /\ Pulling
    /\ state.nextUrl # ""
    /\ shouldContinue(selectStrategy(config), state, config)
    /\ Len(requests) < MaxFetches
    /\ requests' = Append(requests, state.nextUrl)
    /\ status' = "Fetching"
    /\ UNCHANGED <<edlinkConfig, path, arg, state, buffer, emitted,
                   responses, error>>

\* variant: a failed request takes back the items already handed out
FetchFailsRollback ==
    /\ status = "Fetching"
    /\ \E cause \in Causes(state.nextUrl) :
         /\ responses' = Append(responses, [ok |-> FALSE, cause |-> cause])
         /\ error' = mapError(cause)
    /\ status' = "Failed"
    /\ emitted' = <<>>
    /\ UNCHANGED <<edlinkConfig, path, arg, state, buffer, requests>>

\* variant: a failed request ends the stream as if the data were exhausted
FetchFailsSilently ==
    /\ status = "Fetching"
    /\ \E cause \in Causes(state.nextUrl) :
         responses' = Append(responses, [ok |-> FALSE, cause |-> cause])
    /\ status' = "Done"
    /\ UNCHANGED <<edlinkConfig, path, arg, state, buffer, emitted, requests,
                   error>>

\* the request, the status filter or the JSON decoding fails
FetchFails ==
    /\ status = "Fetching"
    /\ \E cause \in Causes(state.nextUrl) :
         /\ responses' = Append(responses, [ok |-> FALSE, cause |-> cause])
         /\ error' = mapError(cause)
    /\ status' = "Failed"
    /\ UNCHANGED <<edlinkConfig, path, arg, state, buffer, emitted, requests>>

\* variant: an empty page does not end the traversal, its cursor is followed
ProcessPageNoEmptyCheck(config, pageData) ==
    LET strategy == selectStrategy(config)
        items == IF pageData.hasData THEN pageData.data ELSE <<>>
        itemsToEmit == calculateItemsToEmit(strategy, items, state, config)
        newRecordCount == state.recordCount + Len(itemsToEmit)
        nextUrl == getNextUrl(strategy, pageData.next, newRecordCount, config)
        nextState == updateState(state, Len(items))
    IN /\ status' = "Active"
       /\ buffer' = itemsToEmit
       /\ state' = [nextState EXCEPT !.nextUrl = nextUrl]

\* variant: a page shorter than the longest page is taken for the last page
ProcessPageShortIsLast(config, pageData) ==
    LET strategy == selectStrategy(config)
        items == IF pageData.hasData THEN pageData.data ELSE <<>>
        itemsToEmit == calculateItemsToEmit(strategy, items, state, config)
        newRecordCount == state.recordCount + Len(itemsToEmit)
        nextUrl == IF Len(items) < MaxPageLen THEN ""
                   ELSE getNextUrl(strategy, pageData.next, newRecordCount, config)
        nextState == updateState(state, Len(items))
    IN IF Len(items) = 0
       THEN /\ status' = "Done"
            /\ UNCHANGED <<state, buffer>>
       ELSE /\ status' = "Active"
            /\ buffer' = itemsToEmit
            /\ state' = [nextState EXCEPT !.nextUrl = nextUrl]

\* the rest of the unfold function once the page is decoded
ProcessPage(config, pageData) ==
    LET strategy == selectStrategy(config)
        items == IF pageData.hasData THEN pageData.data ELSE <<>>
        nextCursor == pageData.next
        itemsToEmit == calculateItemsToEmit(strategy, items, state, config)
        newRecordCount == state.recordCount + Len(itemsToEmit)
        nextUrl == getNextUrl(strategy, nextCursor, newRecordCount, config)
        nextState == updateState(state, Len(items))
    IN IF Len(items) = 0
       THEN /\ status' = "Done"
            /\ UNCHANGED <<state, buffer>>
       ELSE /\ status' = "Active"
            /\ buffer' = itemsToEmit
            /\ state' = [nextState EXCEPT !.nextUrl = nextUrl]

FetchPage(config) ==
    /\ status = "Fetching"
    /\ \E pageData \in ServerPages(edlinkConfig, path,
                                   UrlIndex(edlinkConfig, path, state.nextUrl)) :
         /\ responses' = Append(responses, pageData)
         /\ ProcessPage(config, pageData)
    /\ UNCHANGED <<edlinkConfig, path, arg, emitted, requests, error>>

\* variant: the buffered items are handed out last first
EmitLastFirst ==
    /\ status = "Active"
    /\ buffer # <<>>
    /\ emitted' = Append(emitted, buffer[Len(buffer)])
    /\ buffer' = SubSeq(buffer, 1, Len(buffer) - 1)
    /\ UNCHANGED <<edlinkConfig, path, arg, state, status, requests,
                   responses, error>>

\* Stream.flatMap((items) => Stream.fromIterable(items)): one item per pull
Emit ==
    /\ status = "Active"
    /\ buffer # <<>>
    /\ emitted' = Append(emitted, Head(buffer))
    /\ buffer' = Tail(buffer)
    /\ UNCHANGED <<edlinkConfig, path, arg, state, status, requests,
                   responses, error>>

\* the consumer stops pulling (Stream.take reached its count, or interruption)
ConsumerStop ==
    /\ status \in {"Active", "Fetching"}
    /\ status' = "Stopped"
    /\ UNCHANGED <<edlinkConfig, path, arg, state, buffer, emitted,
                   requests, responses, error>>

NextWith(config) ==
    \/ StepNoUrl /\ UNCHANGED pairVars
    \/ StepPolicyStop(config) /\ UNCHANGED pairVars
    \/ StepRequest(config) /\ UNCHANGED pairVars
    \/ FetchFails /\ UNCHANGED pairVars
    \/ FetchPage(config) /\ UNCHANGED pairVars
    \/ Emit /\ UNCHANGED pairVars
    \/ ConsumerStop /\ UNCHANGED pairVars

Next ==
    \/ StepNoUrl /\ UNCHANGED pairVars
    \/ StepPolicyStop(paginationConfig) /\ UNCHANGED pairVars
    \/ StepRequest(paginationConfig) /\ UNCHANGED pairVars
    \/ FetchFails /\ UNCHANGED pairVars
    \/ FetchPage(paginationConfig) /\ UNCHANGED pairVars
    \/ Emit /\ UNCHANGED pairVars
    \/ ConsumerStop /\ UNCHANGED pairVars

Spec == InitLive /\ [][Next]_vars

----------------------------------------------------------------------------
(* History of one traversal, read from the requests and their outcomes *)

\* items of a decoded page as the client reads them ($data || [])
PageItems(r) == IF r.ok /\ r.hasData THEN r.data ELSE <<>>

IsEmptyPage(r) == r.ok /\ PageItems(r) = <<>>

IsFailure(r) == ~r.ok

\* the page's cursor names a further page
HasCursor(r) == r.ok /\ r.next \notin {Null, Undefined, ""}

RECURSIVE RawItems(_)
\* all items of the pages served so far, in server order
RawItems(rs) ==
    IF rs = <<>> THEN <<>>
    ELSE RawItems(SubSeq(rs, 1, Len(rs) - 1)) \o PageItems(rs[Len(rs)])

LastResponse == responses[Len(responses)]

\* every page served so far is decoded and non-empty
ServerWellBehaved == \A i \in 1..Len(responses) :
    responses[i].ok /\ PageItems(responses[i]) # <<>>

----------------------------------------------------------------------------
(* C1: under the policy pages/maxPages = N, N >= 0, a traversal issues at
   most N page requests, whatever the server answers. *)
PageLimitInvariant ==
    (paginationConfig.type = "pages" /\ paginationConfig.maxPages >= 0)
        => Len(requests) <= paginationConfig.maxPages

\* the limit is what stopped the traversal: the server offered a further page
PageLimitWitness ==
    /\ arg = PagesConfig(2)
    /\ status = "Done"
    /\ Len(requests) = 2
    /\ Len(responses) = 2
    /\ HasCursor(LastResponse)
    /\ PageItems(LastResponse) # <<>>

(* C2: under records/maxRecords = M, M >= 0, a traversal consumed to its
   end against a server whose pages are non-empty emits exactly the first
   min(M, total) items in server order: it ends short of M only when the
   server reported no further cursor, and when M items exist the last one
   emitted is the M-th. *)
RecordLimitInvariant ==
    (/\ arg.type = "records"
     /\ arg.maxRecords >= 0
     /\ status = "Done"
     /\ ServerWellBehaved)
        => LET raw == RawItems(responses)
               M == arg.maxRecords
           IN /\ Len(emitted) = Min(M, Len(raw))
              /\ emitted = Take(raw, M)
              /\ Len(raw) < M => (responses # <<>> /\ ~HasCursor(LastResponse))
              /\ (M >= 1 /\ Len(raw) >= M) => emitted[Len(emitted)] = raw[M]

\* two pages of three with a limit of four: the second page is cut
RecordLimitWitness ==
    /\ arg = RecordsConfig(4)
    /\ status = "Done"
    /\ Len(responses) = 2
    /\ Len(PageItems(responses[1])) = 3
    /\ Len(PageItems(responses[2])) = 3
    /\ HasCursor(responses[2])
    /\ Len(emitted) = 4

(* C3: under every policy a page with no items, or with no data field, ends
   the traversal at once and without error: it is the last request, nothing
   is buffered or emitted from it, even when it carried a cursor. *)
EmptyPageTermination ==
    \A i \in 1..Len(responses) :
        IsEmptyPage(responses[i])
            => /\ i = Len(responses)
               /\ Len(requests) = i
               /\ status = "Done"
               /\ error = NoError
               /\ buffer = <<>>
               /\ emitted = RawItems(SubSeq(responses, 1, i - 1))

\* an empty page with a cursor, under the policy that never stops by itself
EmptyPageWitness ==
    /\ arg = AllConfig
    /\ status = "Done"
    /\ Len(responses) = 2
    /\ IsEmptyPage(LastResponse)
    /\ HasCursor(LastResponse)
    /\ emitted # <<>>

(* C4: at every point the items emitted so far, followed by the items still
   buffered, are a prefix of the concatenation of the served pages in
   request order and page order (the whole of it under pages and all, where
   no page is cut): nothing is repeated, skipped over or swapped. *)
OrderPreservation ==
    /\ IsPrefix(emitted \o buffer, RawItems(responses))
    /\ paginationConfig.type \in {"pages", "all"}
           => emitted \o buffer = RawItems(responses)

\* items of two pages have been emitted, the second page partly
OrderWitness ==
    /\ Len(responses) = 2
    /\ Len(PageItems(responses[1])) = 2
    /\ Len(emitted) = 3
    /\ Len(buffer) = 2

(* C5: a page is requested only when the consumer asks for an item and
   every item of the earlier pages has been handed over; a consumer that
   stops ends the stream without error and without a further request, and
   one that stops inside the first page has caused one request at most. *)
DemandDriven ==
    [][/\ requests' # requests
           => /\ status = "Active"
              /\ buffer = <<>>
              /\ Len(responses) = Len(requests)
              /\ requests' = Append(requests, state.nextUrl)
       /\ status' = "Stopped"
           => /\ error' = NoError
              /\ requests' = requests
              /\ emitted' = emitted
              /\ (responses # <<>>
                    /\ Len(emitted) < Len(PageItems(responses[1])))
                     => Len(requests) = 1
       /\ status = "Stopped" => UNCHANGED vars]_vars

\* the consumer stopped after one item of a first page of three
DemandWitness ==
    /\ status = "Stopped"
    /\ arg = AllConfig
    /\ Len(emitted) = 1
    /\ Len(responses) = 1
    /\ Len(PageItems(responses[1])) = 3
    /\ HasCursor(responses[1])
    /\ Len(requests) = 1

(* C6: a failed page fetch ends the stream in the error state at that
   request: the failure is the last outcome, no request follows it, nothing
   is buffered, and the consumer holds an error instead of a clean end. *)
FailureEndsStream ==
    /\ \A i \in 1..Len(responses) :
        IsFailure(responses[i])
            => /\ i = Len(responses)
               /\ Len(requests) = i
               /\ status = "Failed"
               /\ error # NoError
               /\ buffer = <<>>
               /\ IsPrefix(emitted, RawItems(SubSeq(responses, 1, i - 1)))
    /\ status = "Failed" => (responses # <<>> /\ IsFailure(LastResponse))

\* the second request failed after items of the first page were emitted
FailureWitness ==
    /\ status = "Failed"
    /\ Len(responses) = 2
    /\ IsFailure(LastResponse)
    /\ emitted # <<>>

(* C7: the error a traversal fails with carries the original cause of the
   fetch failure and the URL whose fetch failed. *)
ErrorCarriesCauseAndUrl ==
    status = "Failed"
        => LET cause == LastResponse.cause
               url == requests[Len(requests)]
           IN /\ SubSeq(error.message, 2, Len(error.message)) = cause.message
              /\ \E i \in 1..Len(error.message) : error.message[i] = url

(* C8: a traversal started without a policy takes exactly the steps of a
   traversal started with pages/maxPages = the configured defaultMaxPages,
   and conversely: same requests, same items, same ending. *)
ConfiguredDefault == PagesConfig(edlinkConfig.defaultMaxPages)

DefaultPolicyEquivalence ==
    [][/\ arg = UndefinedConfig => NextWith(ConfiguredDefault)
       /\ arg = ConfiguredDefault
            => NextWith(paginationConfigOf(UndefinedConfig, edlinkConfig))]_vars

\* no policy given, and the configured page count is what ended the traversal
DefaultPolicyWitness ==
    /\ arg = UndefinedConfig
    /\ edlinkConfig.defaultMaxPages = 2
    /\ status = "Done"
    /\ Len(requests) = 2
    /\ Len(responses) = 2
    /\ HasCursor(LastResponse)
    /\ Len(emitted) = Len(RawItems(responses))
    /\ emitted # <<>>

(* C9: against the server that answers [a,b,c] with cursor p2, then [d,e]
   with a null cursor, pages/3 yields [a,b,c,d,e] with 2 requests and
   records/4 yields [a,b,c,d] with 2 requests, the second page cut to its
   first item. *)
ExamplePage1 ==
    [ok |-> TRUE, hasData |-> TRUE, data |-> ItemsAt(1, 3), next |-> "p2"]

ExamplePage2 ==
    [ok |-> TRUE, hasData |-> TRUE, data |-> ItemsAt(2, 2), next |-> Null]

ExampleServer == IsPrefix(responses, <<ExamplePage1, ExamplePage2>>)

ExampleEndToEnd ==
    /\ (ExampleServer /\ arg = PagesConfig(3))
         => /\ IsPrefix(requests, <<StartUrl(edlinkConfig, path), "p2">>)
            /\ IsPrefix(emitted, ItemsAt(1, 3) \o ItemsAt(2, 2))
            /\ status = "Done"
                 => /\ Len(requests) = 2
                    /\ emitted = <<Item(1, 1), Item(1, 2), Item(1, 3),
                                   Item(2, 1), Item(2, 2)>>
    /\ (ExampleServer /\ arg = RecordsConfig(4))
         => /\ IsPrefix(requests, <<StartUrl(edlinkConfig, path), "p2">>)
            /\ IsPrefix(emitted, ItemsAt(1, 3) \o ItemsAt(2, 1))
            /\ Len(responses) = 2 /\ status = "Active"
                 => emitted \o buffer = ItemsAt(1, 3) \o <<Item(2, 1)>>
            /\ status = "Done"
                 => /\ Len(requests) = 2
                    /\ emitted = <<Item(1, 1), Item(1, 2), Item(1, 3),
                                   Item(2, 1)>>

\* the record-limited traversal of the example server has ended
ExampleWitness ==
    /\ arg = RecordsConfig(4)
    /\ responses = <<ExamplePage1, ExamplePage2>>
    /\ status = "Done"
    /\ Len(emitted) = 4

(* C10: under pages/maxPages = 0 the traversal issues no request and emits
   no item; its first step ends it cleanly, shouldContinue being false at
   pageCount = 0. *)
ZeroPagesNoRequest ==
    [][arg = PagesConfig(0)
         => /\ ~shouldContinue(selectStrategy(paginationConfig), state,
                               paginationConfig)
            /\ state.pageCount = 0
            /\ requests' = <<>>
            /\ emitted' = <<>>
            /\ error' = NoError
            /\ status' \in {"Done", "Stopped"}]_vars

\* the zero-page traversal has ended by itself
ZeroPagesWitness ==
    /\ arg = PagesConfig(0)
    /\ status = "Done"
    /\ requests = <<>>
    /\ emitted = <<>>

(* C11: a traversal is in the error state exactly when one of its page
   fetches failed; an end on an empty page, on an absent cursor or on a
   reached limit is a clean end without error. *)
ErrorIffFetchFailed ==
    /\ status = "Failed" <=> (\E i \in 1..Len(responses) : IsFailure(responses[i]))
    /\ error # NoError <=> status = "Failed"
    /\ status = "Done"
         => /\ error = NoError
            /\ \/ state.nextUrl = ""
               \/ ~shouldContinue(selectStrategy(paginationConfig), state,
                                  paginationConfig)
               \/ (responses # <<>> /\ IsEmptyPage(LastResponse))

\* a record limit ended the traversal cleanly although a cursor was offered
CleanEndWitness ==
    /\ arg = RecordsConfig(2)
    /\ status = "Done"
    /\ error = NoError
    /\ Len(responses) = 1
    /\ HasCursor(LastResponse)
    /\ Len(emitted) = 2

(* C12: an ended traversal, clean or failed, takes no further step: no
   request and no item follow; the request that failed is the last one and
   is not repeated. *)
EndIsFinal ==
    [][/\ status \notin {"Done", "Failed"}
       /\ status' = "Failed"
            => /\ requests' = requests
               /\ Len(responses') = Len(requests')
               /\ IsFailure(responses'[Len(responses')])]_vars

\* the traversal failed on its second request
EndedWitness ==
    /\ status = "Failed"
    /\ Len(requests) = 2
    /\ Len(responses) = 2
    /\ requests[1] # requests[2]

(* C17: a page is requested only from a state whose nextUrl is non-empty
   and whose counters are below the policy's limit; both tests come before
   the request, so a stop by the policy costs no request. *)
BelowLimit ==
    /\ paginationConfig.type = "pages"
         => state.pageCount < paginationConfig.maxPages
    /\ paginationConfig.type = "records"
         => state.recordCount < paginationConfig.maxRecords

FetchOnlyWhenAllowed ==
    [][/\ requests' # requests
            => /\ state.nextUrl # ""
               /\ BelowLimit
               /\ shouldContinue(selectStrategy(paginationConfig), state,
                                 paginationConfig)
               /\ requests' = Append(requests, state.nextUrl)
       /\ (status = "Active" /\ status' = "Done")
            => requests' = requests]_vars

\* the page limit stopped the traversal and the offered page was not requested
PolicyStopWitness ==
    /\ arg = PagesConfig(1)
    /\ status = "Done"
    /\ Len(requests) = 1
    /\ Len(responses) = 1
    /\ HasCursor(LastResponse)
    /\ state.nextUrl # ""

(* C18: under records/maxRecords = M, a page that brings the emitted count
   to exactly M without being cut, and that carries a cursor, leaves
   nextUrl empty; no request follows it. *)
ExactBoundary(rs) ==
    /\ rs # <<>>
    /\ \A i \in 1..Len(rs) : rs[i].ok /\ PageItems(rs[i]) # <<>>
    /\ HasCursor(rs[Len(rs)])
    /\ Len(RawItems(rs)) = arg.maxRecords

RecordBoundaryStops ==
    [][(arg.type = "records" /\ ExactBoundary(responses'))
          => /\ state'.nextUrl = ""
             /\ emitted' \o buffer' = RawItems(responses')
             /\ requests' = requests
             /\ Len(requests') = Len(responses')]_vars

\* one page of three under a limit of three, with a cursor offered
RecordBoundaryWitness ==
    /\ arg = RecordsConfig(3)
    /\ Len(responses) = 1
    /\ ExactBoundary(responses)
    /\ status = "Done"
    /\ Len(emitted) = 3

(* C19: under records/maxRecords = M, the items taken from a fetched page
   are its first min(page length, M - count before the page) items, in page
   order; that number is at least one. *)
RecordPrefixTruncation ==
    [][(arg.type = "records" /\ Len(responses') > Len(responses)
          /\ responses'[Len(responses')].ok
          /\ PageItems(responses'[Len(responses')]) # <<>>)
          => LET page == PageItems(responses'[Len(responses')])
                 allowed == Min(Len(page), arg.maxRecords - state.recordCount)
             IN /\ allowed >= 1
                /\ state.recordCount = Len(emitted)
                /\ buffer' = SubSeq(page, 1, allowed)]_vars

\* the second page of three is cut to its first item by a limit of four
TruncationWitness ==
    /\ arg = RecordsConfig(4)
    /\ status = "Active"
    /\ Len(responses) = 2
    /\ Len(PageItems(responses[1])) = 3
    /\ Len(PageItems(responses[2])) = 3
    /\ buffer = <<PageItems(responses[2])[1]>>
    /\ Len(emitted) = 3

(* C20: under the policies pages and all, every non-empty page fetched is
   emitted whole, the last page allowed by maxPages included. *)
WholePageEmitted ==
    [][(paginationConfig.type \in {"pages", "all"}
          /\ Len(responses') > Len(responses)
          /\ responses'[Len(responses')].ok
          /\ PageItems(responses'[Len(responses')]) # <<>>)
          => buffer' = PageItems(responses'[Len(responses')])]_vars

\* the only page allowed by pages/1 is handed over with its three items
WholePageWitness ==
    /\ arg = PagesConfig(1)
    /\ status = "Active"
    /\ Len(responses) = 1
    /\ Len(PageItems(responses[1])) = 3
    /\ buffer = PageItems(responses[1])
    /\ state.pageCount = 1

(* ------------------------------------------------------------------ *)
(* Construction of a stream, descriptors of any shape included.        *)
(* getEventsStream(config) calls createPaginatedStream, which calls    *)
(* selectStrategy before Stream.unfoldEffect is reached.               *)
(* ------------------------------------------------------------------ *)

\* descriptors that no type guard accepts: unknown type, null, and the
\* types pages and records without their limit (typeof limit # 'number')
NullConfig == [type |-> "null"]

MalformedConfigs ==
    {[type |-> "bogus"], NullConfig,
     [type |-> "pages"], [type |-> "records"],
     [type |-> "pages", maxRecords |-> 2],
     [type |-> "records", maxPages |-> 2]}

WellFormedConfigs == {PagesConfig(1), RecordsConfig(2), UndefinedConfig}

\* the state before getEventsStream / getPeopleStream is called
InitConstruct ==
    /\ edlinkConfig \in EdlinkConfigs
    /\ path \in Paths
    /\ arg \in MalformedConfigs \cup WellFormedConfigs
    /\ state = [nextUrl |-> "", pageCount |-> 0, recordCount |-> 0]
    /\ status = "NotCreated"
    /\ buffer = <<>>
    /\ emitted = <<>>
    /\ requests = <<>>
    /\ responses = <<>>
    /\ error = NoError
    /\ other = NoOther
    /\ running = 1
    /\ merged = <<>>

\* const strategy = selectStrategy(paginationConfig); return Stream.unfoldEffect({...})
CreateStream ==
    /\ status = "NotCreated"
    /\ status' = IF selectStrategy(paginationConfig) = "throw"
                 THEN "Threw"
                 ELSE "Active"
    /\ state' = IF selectStrategy(paginationConfig) = "throw"
                THEN state
                ELSE initialState(edlinkConfig, path)
    /\ UNCHANGED <<edlinkConfig, path, arg, buffer, emitted,
                   requests, responses, error>>
    /\ UNCHANGED pairVars

NextConstruct ==
    \/ CreateStream
    \/ Next

SpecConstruct == InitConstruct /\ [][NextConstruct]_vars

\* what the claim calls a descriptor that is not a policy
Malformed(config) ==
    \/ config.type \notin {"pages", "records", "all"}
    \/ config.type = "pages" /\ "maxPages" \notin DOMAIN config
    \/ config.type = "records" /\ "maxRecords" \notin DOMAIN config

(* C16: a descriptor of unknown type, or of type pages or records without
   its limit, makes the construction of the stream throw; no stream
   exists, so no request is made and no stream error is delivered. *)
MalformedThrowsAtConstruction ==
    /\ status # "NotCreated"
         => (status = "Threw" <=> Malformed(paginationConfig))
    /\ status = "Threw"
         => /\ requests = <<>> /\ responses = <<>>
            /\ emitted = <<>> /\ buffer = <<>>
            /\ error = NoError
            /\ state.nextUrl = ""

\* the construction threw on a pages descriptor that has no maxPages
ThrowWitness ==
    /\ status = "Threw"
    /\ arg = [type |-> "pages"]
    /\ requests = <<>>

(* ------------------------------------------------------------------ *)
(* The client of makeEdlinkClientLayer(config) (deprecated factory).   *)
(* Its unfold step returns Option.none() on every path: on an empty    *)
(* nextUrl, on a reached limit, and otherwise after logging the        *)
(* deprecation message. No path builds or executes a request.          *)
(* ------------------------------------------------------------------ *)

\* paginationConfig?.maxPages || defaultPaginationConfig.maxPages
legacyMaxPages(a, cfg) ==
    IF a.maxPages = 0 THEN cfg.defaultMaxPages ELSE a.maxPages

\* the step function given to Stream.unfoldEffect by the deprecated factory
LegacyUnfoldStep ==
    /\ Pulling
    /\ status' =
         IF state.nextUrl = "" THEN "Done"
         ELSE IF path = "/events" /\ arg.type = "pages"
                   /\ state.pageCount >= legacyMaxPages(arg, edlinkConfig)
              THEN "Done"
         ELSE IF path = "/events" /\ arg.type = "records"
                   /\ state.recordCount >= arg.maxRecords
              THEN "Done"
         ELSE "Done"
    /\ UNCHANGED <<edlinkConfig, path, arg, state, buffer, emitted,
                   requests, responses, error>>
    /\ UNCHANGED pairVars

NextLegacy ==
    \/ LegacyUnfoldStep
    \/ ConsumerStop /\ UNCHANGED pairVars

SpecLegacy == Init /\ [][NextLegacy]_vars

(* C15: a stream of the client made by makeEdlinkClientLayer, asked for at
   most N >= 1 records, has requested the first page by the time it ends. *)
LegacyHonoursRecordLimit ==
    (arg.type = "records" /\ arg.maxRecords >= 1 /\ status = "Done")
        => /\ Len(requests) >= 1
           /\ requests[1] = StartUrl(edlinkConfig, path)

(* ------------------------------------------------------------------ *)
(* Two streams of one client run together.                             *)
(* Each call of createPaginatedStream builds its own state literal and *)
(* its own closure over paginationConfig and strategy; the runtime     *)
(* interleaves the steps of the two streams in any order. The          *)
(* variables path .. error hold the stream that runs, other holds the  *)
(* stream that waits.                                                  *)
(* ------------------------------------------------------------------ *)

\* the stream that is running, as a value
Current ==
    [path |-> path, arg |-> arg, state |-> state, status |-> status,
     buffer |-> buffer, emitted |-> emitted, requests |-> requests,
     responses |-> responses, error |-> error]

\* a stream as createPaginatedStream returns it
NewTraversal(cfg, p, a) ==
    [path |-> p, arg |-> a, state |-> initialState(cfg, p),
     status |-> "Active", buffer |-> <<>>, emitted |-> <<>>,
     requests |-> <<>>, responses |-> <<>>, error |-> NoError]

PairConfigs == {PagesConfig(1), RecordsConfig(3)}

\* getEventsStream(a) and a second stream, of people or of events again
InitPair ==
    /\ edlinkConfig = [apiBaseUrl |-> DefaultApiBaseUrl,
                       defaultMaxPages |-> DefaultMaxPagesDefault]
    /\ path = "/events"
    /\ arg \in PairConfigs
    /\ state = initialState(edlinkConfig, path)
    /\ status = "Active"
    /\ buffer = <<>>
    /\ emitted = <<>>
    /\ requests = <<>>
    /\ responses = <<>>
    /\ error = NoError
    /\ \E p \in Paths, a \in PairConfigs :
         other = NewTraversal(edlinkConfig, p, a)
    /\ running = 1
    /\ merged = <<>>

\* variant: the two streams share one PaginationState
SwitchSharedState ==
    /\ other # NoOther
    /\ path' = other.path
    /\ arg' = other.arg
    /\ status' = other.status
    /\ buffer' = other.buffer
    /\ emitted' = other.emitted
    /\ requests' = other.requests
    /\ responses' = other.responses
    /\ error' = other.error
    /\ other' = Current
    /\ running' = 3 - running
    /\ UNCHANGED <<edlinkConfig, state, merged>>

\* the runtime suspends the running stream and resumes the other one
Switch ==
    /\ other # NoOther
    /\ path' = other.path
    /\ arg' = other.arg
    /\ state' = other.state
    /\ status' = other.status
    /\ buffer' = other.buffer
    /\ emitted' = other.emitted
    /\ requests' = other.requests
    /\ responses' = other.responses
    /\ error' = other.error
    /\ other' = Current
    /\ running' = 3 - running
    /\ UNCHANGED <<edlinkConfig, merged>>

\* the server and transport while two streams run: short pages, a cursor
\* to the second page or none, one kind of failure
PairServer ==
    LET r == LastResponse
    IN IF r.ok
       THEN /\ r.hasData
            /\ Len(r.data) <= PairPageLen
            /\ r.next \in {Null, UrlOf(edlinkConfig, path, 2)}
       ELSE r.cause.message = <<"Transport">>

\* variant: the merged stream puts each new item in front
MergeEmitFront ==
    /\ Emit
    /\ merged' = <<<<running, Head(buffer)>>>> \o merged
    /\ UNCHANGED <<other, running>>

\* an item of either stream goes to the consumer of the merged stream,
\* tagged with its source as the examples tag it with type
MergeEmit ==
    /\ Emit
    /\ merged' = Append(merged, <<running, Head(buffer)>>)
    /\ UNCHANGED <<other, running>>

\* both streams are collected to their end (Stream.runCollect)
NextPair ==
    \/ StepNoUrl /\ UNCHANGED pairVars
    \/ StepPolicyStop(paginationConfig) /\ UNCHANGED pairVars
    \/ StepRequest(paginationConfig) /\ Len(requests') <= PairFetches
          /\ UNCHANGED pairVars
    \/ FetchFails /\ PairServer' /\ UNCHANGED pairVars
    \/ FetchPage(paginationConfig) /\ PairServer' /\ UNCHANGED pairVars
    \/ MergeEmit
    \/ Switch

SpecPair == InitPair /\ [][NextPair]_vars

\* stream k of the pair, running or waiting
Traversal(k) == IF running = k THEN Current ELSE other

\* the state of a stream is what its own requests and answers make it
OwnHistory(t) ==
    /\ t.responses = <<>> => t.state = initialState(edlinkConfig, t.path)
    /\ t.state.recordCount = Len(RawItems(t.responses))
    /\ t.state.pageCount =
         Cardinality({i \in 1..Len(t.responses) :
                         t.responses[i].ok /\ PageItems(t.responses[i]) # <<>>})
    /\ t.requests # <<>> => t.requests[1] = StartUrl(edlinkConfig, t.path)
    /\ \A i \in 2..Len(t.requests) : t.requests[i] = t.responses[i - 1].next
    /\ Len(t.responses) <= Len(t.requests)
    /\ Len(t.requests) <= Len(t.responses) + 1
    /\ IsPrefix(t.emitted \o t.buffer, RawItems(t.responses))

(* C13: of two streams run in any interleaving, each has its own state:
   it starts from pageCount 0, recordCount 0 and its own start URL, its
   state, requests and items follow from its own answers alone, a step of
   one stream leaves the other untouched, and suspending and resuming
   changes neither. *)
TraversalsIndependent ==
    [][/\ OwnHistory(Traversal(1))' /\ OwnHistory(Traversal(2))'
       /\ running' = running => other' = other
       /\ running' # running
            => /\ Traversal(1)' = Traversal(1)
               /\ Traversal(2)' = Traversal(2)]_vars

\* both streams have fetched two pages each, their steps interleaved, and
\* differ in what they were served
IndependentWitness ==
    /\ Len(Traversal(1).requests) = 2 /\ Len(Traversal(2).requests) = 2
    /\ Len(Traversal(1).responses) = 2 /\ Len(Traversal(2).responses) = 1
    /\ Traversal(1).path = Traversal(2).path
    /\ Traversal(1).state.recordCount = 3
    /\ Traversal(2).state.recordCount = 1
    /\ Traversal(2).status = "Fetching"
    /\ running = 2

RECURSIVE FromSource(_, _)
\* the items of source k in a merged sequence, in their order there
FromSource(ms, k) ==
    IF ms = <<>> THEN <<>>
    ELSE IF Head(ms)[1] = k
         THEN <<Head(ms)[2]>> \o FromSource(Tail(ms), k)
         ELSE FromSource(Tail(ms), k)

(* C14: in every interleaving, the merged sequence restricted to the items
   of one source is that source's own emitted sequence, in its order;
   nothing is said about how the two sources interleave. *)
MergePreservesSourceOrder ==
    \A k \in {1, 2} : FromSource(merged, k) = Traversal(k).emitted

\* the merged sequence alternates between the two sources, second first
MergeWitness ==
    /\ Len(merged) = 4
    /\ merged[1][1] = 2 /\ merged[2][1] = 1
    /\ merged[3][1] = 2 /\ merged[4][1] = 1
    /\ Traversal(1).path = "/events" /\ Traversal(2).path = "/people"
    /\ Len(Traversal(1).emitted) = 2 /\ Len(Traversal(2).emitted) = 2

----------------------------------------------------------------------------
(* Ends of a traversal and its counters *)

\* every answer so far is a non-empty page with a cursor
Generous(rs) ==
    \A i \in 1..Len(rs) : rs[i].ok /\ PageItems(rs[i]) # <<>> /\ HasCursor(rs[i])

(* C21: under the policy all no count ends the traversal: it is ended only
   by an empty page, by a page without cursor or by a failed fetch; while
   every page is non-empty and has a cursor the traversal is not ended and
   its next pull asks for the page the cursor names. *)
AllEndsOnlyOnServerSignal ==
    paginationConfig.type = "all"
      => /\ status = "Done"
              => /\ responses # <<>>
                 /\ LastResponse.ok
                 /\ IsEmptyPage(LastResponse) \/ ~HasCursor(LastResponse)
         /\ status = "Failed" => (responses # <<>> /\ IsFailure(LastResponse))
         /\ Generous(responses)
              => /\ status \notin {"Done", "Failed"}
                 /\ state.pageCount = Len(responses)
                 /\ (Pulling /\ responses # <<>>)
                      => state.nextUrl = LastResponse.next

\* as many generous pages as the model fetches, and the traversal still runs
AllDivergesWitness ==
    /\ arg = AllConfig
    /\ Len(responses) = MaxFetches
    /\ Generous(responses)
    /\ status = "Active"
    /\ buffer = <<>>
    /\ Len(emitted) >= MaxFetches

\* the policy, as the descriptor states it, allows a further page
PolicyAllows ==
    /\ paginationConfig.type = "pages"
         => Cardinality({i \in 1..Len(responses) :
                            responses[i].ok /\ PageItems(responses[i]) # <<>>})
              < paginationConfig.maxPages
    /\ paginationConfig.type = "records"
         => Len(emitted) < paginationConfig.maxRecords

(* C22: a clean end has one of three reasons: the policy stops, a page is
   empty, or the last page had no cursor. After a non-empty page of any
   length with a cursor, under a policy that allows a further page, the
   pull of the consumer requests the page the cursor names. *)
CleanEndReasons ==
    [][/\ status' = "Done"
            => \/ ~shouldContinue(selectStrategy(paginationConfig), state',
                                  paginationConfig)
               \/ responses' # <<>> /\ IsEmptyPage(responses'[Len(responses')])
               \/ responses' # <<>> /\ responses'[Len(responses')].ok
                     /\ ~HasCursor(responses'[Len(responses')])
       /\ (Pulling /\ responses # <<>> /\ PageItems(LastResponse) # <<>>
             /\ HasCursor(LastResponse) /\ PolicyAllows)
            => /\ state.nextUrl = LastResponse.next
               /\ shouldContinue(selectStrategy(paginationConfig), state,
                                 paginationConfig)
               /\ \/ requests' = Append(requests, LastResponse.next)
                  \/ status' = "Stopped"]_vars

\* a page of one item with a cursor was followed by a second request
ShortPageWitness ==
    /\ Len(requests) = 2
    /\ Len(responses) >= 1
    /\ Len(PageItems(responses[1])) = 1
    /\ requests[2] = responses[1].next
    /\ Len(emitted) = 1

(* C23: pageCount and recordCount never decrease; pageCount grows by one
   with each non-empty page fetched and not otherwise; recordCount is never
   more than the number of items fetched so far. *)
CountersMonotone ==
    [][/\ state'.pageCount >= state.pageCount
       /\ state'.recordCount >= state.recordCount
       /\ state'.pageCount =
            state.pageCount
              + (IF Len(responses') > Len(responses)
                      /\ responses'[Len(responses')].ok
                      /\ PageItems(responses'[Len(responses')]) # <<>>
                 THEN 1 ELSE 0)
       /\ state'.recordCount <= Len(RawItems(responses'))
       /\ state.pageCount >= 0 /\ state.recordCount >= 0]_vars

\* a long page followed by a shorter one
CountersWitness ==
    /\ Len(responses) = 2
    /\ Len(PageItems(responses[1])) = 3
    /\ Len(PageItems(responses[2])) = 1
    /\ state.pageCount = 2
    /\ state.recordCount = 4

(* C24: in every state recordCount is the number of items handed out by
   the unfold step so far, counted after the cut of the record limit. *)
RecordCountIsEmittedCount ==
    state.recordCount = Len(emitted) + Len(buffer)

(* C25: the first request goes to the start URL, built from the configured
   base URL and the resource path, from the state with both counters 0;
   every later request goes to the cursor of the page fetched just before
   it, character for character. *)
CursorOrder ==
    /\ requests = <<>>
         => state = [nextUrl |-> edlinkConfig.apiBaseUrl \o "/v2/graph" \o path,
                     pageCount |-> 0, recordCount |-> 0]
    /\ requests # <<>>
         => requests[1] = edlinkConfig.apiBaseUrl \o "/v2/graph" \o path
    /\ \A i \in 2..Len(requests) :
         /\ HasCursor(responses[i - 1])
         /\ requests[i] = responses[i - 1].next

\* three requests, the second and third to the cursors served
CursorOrderWitness ==
    /\ Len(requests) = 3
    /\ requests[2] # requests[1]
    /\ requests[2] = responses[1].next
    /\ requests[3] = responses[2].next

\* the last request brought no page to count: it is in flight or was
\* interrupted, or it failed or brought an empty page
LastRequestUncounted ==
    \/ Len(requests) > Len(responses)
    \/ responses # <<>> /\ (IsFailure(LastResponse) \/ IsEmptyPage(LastResponse))

(* C26, as stated: between requests the number of requests is pageCount,
   plus one after an end on an empty page or a failed fetch, and no URL is
   requested twice in one traversal. *)
OneRequestPerPageNoRepeat ==
    /\ Len(requests) = Len(responses)
         => Len(requests) = state.pageCount
                              + (IF LastRequestUncounted THEN 1 ELSE 0)
    /\ \A i, j \in 1..Len(requests) : i # j => requests[i] # requests[j]

(* C26, amended: the number of requests is pageCount, plus one while the
   last request is in flight or after it failed or brought an empty page;
   a URL is requested again only when a cursor of the server names a URL
   already requested. *)
OneRequestPerPage ==
    /\ Len(requests) = state.pageCount
                         + (IF LastRequestUncounted THEN 1 ELSE 0)
    /\ \A i, j \in 1..Len(requests) :
         (i < j /\ requests[i] = requests[j])
            => responses[j - 1].next = requests[i]

\* the cursor of the first page named the start URL, which was requested again
RepeatedUrlWitness ==
    /\ Len(requests) = 2
    /\ requests[2] = requests[1]
    /\ Len(responses) = 2
    /\ state.pageCount = 2

(* C27: at most one request is unanswered at any time, none while items
   are buffered, and the buffered items are a run of consecutive items of
   the page fetched last. *)
OneFetchOnePage ==
    /\ Len(requests) - Len(responses) \in {0, 1}
    /\ status = "Fetching"
         => (Len(requests) = Len(responses) + 1 /\ buffer = <<>>)
    /\ status \in {"Active", "Done", "Failed"}
         => Len(requests) = Len(responses)
    /\ buffer # <<>>
         => /\ responses # <<>>
            /\ \E a \in 1..Len(PageItems(LastResponse)) :
                 \E b \in a..Len(PageItems(LastResponse)) :
                    buffer = SubSeq(PageItems(LastResponse), a, b)

\* the rest of the second page is buffered, the first page is gone
SinglePageWitness ==
    /\ status = "Active"
    /\ Len(responses) = 2
    /\ Len(PageItems(responses[2])) = 3
    /\ buffer = Tail(PageItems(responses[2]))
    /\ Len(emitted) = Len(PageItems(responses[1])) + 1
    /\ responses[1].next # requests[1]

(* C28: when a fetch fails, what the consumer has is every item of the
   pages before it, in order, and then the error: nothing is taken back,
   nothing is buffered and no item of a later page appears. *)
FailureKeepsEmitted ==
    [][status' = "Failed"
         => /\ emitted' = emitted
            /\ buffer' = <<>>
            /\ emitted' = RawItems(SubSeq(responses', 1, Len(responses') - 1))
            /\ IsFailure(responses'[Len(responses')])
            /\ error' # NoError]_vars

\* the third fetch failed after two pages had been handed out
FailureAfterPagesWitness ==
    /\ status = "Failed"
    /\ Len(responses) = 3
    /\ Len(emitted) = 4
    /\ emitted = PageItems(responses[1]) \o PageItems(responses[2])
    /\ Len(PageItems(responses[1])) = 3

(* ------------------------------------------------------------------ *)
(* Building the configuration and the client from the environment.     *)
(* EdlinkConfig.Live reads the environment with Config.all; the client *)
(* layer is built from the loaded configuration. Until the load has    *)
(* succeeded, edlinkConfig holds the environment as it was found.      *)
(* ------------------------------------------------------------------ *)

\* a variable that is not set
Missing == "missing"

Environments ==
    [EDLINK_CLIENT_ID : {Missing, "id"},
     EDLINK_CLIENT_SECRET : {Missing, "secret"},
     EDLINK_API_BASE_URL : {Missing, "https://eu.ed.link/api"},
     EDLINK_DEFAULT_MAX_PAGES : {Missing, "2", "x"}]

\* Config.integer: the text of a variable as a number, where it is one
IntegerTexts == {"1", "2", "3"}

IntegerOf(text) ==
    CASE text = "1" -> 1
      [] text = "2" -> 2
      [] text = "3" -> 3

\* variant: the client secret is optional
ConfigFailsIdOnly(env) ==
    \/ env.EDLINK_CLIENT_ID = Missing
    \/ env.EDLINK_DEFAULT_MAX_PAGES \notin IntegerTexts \cup {Missing}

\* Config.all fails: a variable without default is missing or a number
\* does not parse
ConfigFails(env) ==
    \/ env.EDLINK_CLIENT_ID = Missing
    \/ env.EDLINK_CLIENT_SECRET = Missing
    \/ env.EDLINK_DEFAULT_MAX_PAGES \notin IntegerTexts \cup {Missing}

\* the EdlinkConfigData loaded, Config.withDefault applied
LoadedConfig(env) ==
    [clientId |-> env.EDLINK_CLIENT_ID,
     clientSecret |-> env.EDLINK_CLIENT_SECRET,
     apiBaseUrl |-> IF env.EDLINK_API_BASE_URL = Missing
                    THEN DefaultApiBaseUrl
                    ELSE env.EDLINK_API_BASE_URL,
     defaultMaxPages |-> IF env.EDLINK_DEFAULT_MAX_PAGES = Missing
                         THEN DefaultMaxPagesDefault
                         ELSE IntegerOf(env.EDLINK_DEFAULT_MAX_PAGES)]

SetupConfigs == {PagesConfig(1), UndefinedConfig}

\* the program before its layers are built
InitSetup ==
    /\ edlinkConfig \in Environments
    /\ path \in Paths
    /\ arg \in SetupConfigs
    /\ state = [nextUrl |-> "", pageCount |-> 0, recordCount |-> 0]
    /\ status = "Unbuilt"
    /\ buffer = <<>>
    /\ emitted = <<>>
    /\ requests = <<>>
    /\ responses = <<>>
    /\ error = NoError
    /\ other = NoOther
    /\ running = 1
    /\ merged = <<>>

\* EdlinkConfig.Live and EdlinkClientLive are built
BuildLayers ==
    /\ status = "Unbuilt"
    /\ IF ConfigFails(edlinkConfig)
       THEN /\ status' = "ConfigError"
            /\ UNCHANGED edlinkConfig
       ELSE /\ status' = "NotCreated"
            /\ edlinkConfig' = LoadedConfig(edlinkConfig)
    /\ UNCHANGED <<path, arg, state, buffer, emitted, requests,
                   responses, error>>
    /\ UNCHANGED pairVars

NextSetup ==
    \/ BuildLayers
    \/ CreateStream
    \/ Next

SpecSetup == InitSetup /\ [][NextSetup]_vars

(* C29, as stated: with the credential or the base URL missing the build
   fails; nothing is requested and no stream error is delivered. *)
MissingSetupFailsAtBuild ==
    [][(status = "Unbuilt"
          /\ (\/ edlinkConfig.EDLINK_CLIENT_ID = Missing
              \/ edlinkConfig.EDLINK_CLIENT_SECRET = Missing
              \/ edlinkConfig.EDLINK_API_BASE_URL = Missing))
         => /\ status' = "ConfigError"
            /\ requests' = <<>>
            /\ error' = NoError]_vars

(* C29, amended: with the client id or the client secret missing (or a
   number that does not parse) the build fails, nothing is ever requested
   and no stream error is delivered; a missing base URL is no failure: the
   default base URL is loaded and the start URL is built from it. *)
MissingCredentialFailsAtBuild ==
    [][/\ status # "ConfigError"
       /\ status = "Unbuilt"
            => IF \/ edlinkConfig.EDLINK_CLIENT_ID = Missing
                  \/ edlinkConfig.EDLINK_CLIENT_SECRET = Missing
                  \/ edlinkConfig.EDLINK_DEFAULT_MAX_PAGES = "x"
               THEN /\ status' = "ConfigError"
                    /\ requests' = <<>> /\ emitted' = <<>>
                    /\ error' = NoError
               ELSE /\ status' = "NotCreated"
                    /\ edlinkConfig'.apiBaseUrl =
                         IF edlinkConfig.EDLINK_API_BASE_URL = Missing
                         THEN "https://ed.link/api"
                         ELSE edlinkConfig.EDLINK_API_BASE_URL
       /\ (status = "NotCreated" /\ status' = "Active")
            => state'.nextUrl = edlinkConfig.apiBaseUrl \o "/v2/graph" \o path]_vars

\* the build failed on a missing secret although the base URL was set
ConfigErrorWitness ==
    /\ status = "ConfigError"
    /\ edlinkConfig.EDLINK_CLIENT_SECRET = Missing
    /\ edlinkConfig.EDLINK_CLIENT_ID # Missing
    /\ edlinkConfig.EDLINK_API_BASE_URL # Missing
    /\ requests = <<>>

(* ------------------------------------------------------------------ *)
(* The inline paginator: createPaginatedStream of the earlier client,  *)
(* which tests paginationConfig.type itself instead of asking a        *)
(* strategy. It is run side by side with the strategy-based one: both  *)
(* get the same pulls of the consumer and the same answers of the      *)
(* server. other holds the stream of the inline paginator.             *)
(* ------------------------------------------------------------------ *)

\* variant: the page limit stops the inline paginator one page late
inlineLimitReachedExclusive(st, config) ==
    \/ config.type = "pages" /\ st.pageCount > config.maxPages
    \/ config.type = "records" /\ st.recordCount >= config.maxRecords

\* the two limit tests made before a request
inlineLimitReached(st, config) ==
    \/ config.type = "pages" /\ st.pageCount >= config.maxPages
    \/ config.type = "records" /\ st.recordCount >= config.maxRecords

\* one run of the unfold function up to the request
inlinePull(t, config) ==
    IF t.status # "Active" \/ t.buffer # <<>> THEN t
    ELSE IF t.state.nextUrl = "" THEN [t EXCEPT !.status = "Done"]
    ELSE IF inlineLimitReached(t.state, config) THEN [t EXCEPT !.status = "Done"]
    ELSE [t EXCEPT !.status = "Fetching",
                   !.requests = Append(t.requests, t.state.nextUrl)]

\* the rest of the unfold function once the page is decoded
inlineProcessPage(t, config, pageData) ==
    LET st == t.state
        items == IF pageData.hasData THEN pageData.data ELSE <<>>
        nextCursor == pageData.next
        cut == config.type = "records"
                 /\ st.recordCount + Len(items) > config.maxRecords
        itemsToEmit == IF cut
                       THEN Slice0(items, config.maxRecords - st.recordCount)
                       ELSE items
        newRecordCount == IF cut THEN config.maxRecords
                          ELSE st.recordCount + Len(items)
        hasNextPage ==
            /\ nextCursor \notin {Null, Undefined}
            /\ (config.type # "pages" \/ st.pageCount + 1 < config.maxPages)
            /\ (config.type # "records" \/ newRecordCount < config.maxRecords)
    IN IF t.status # "Fetching" THEN t
       ELSE IF Len(items) = 0
       THEN [t EXCEPT !.status = "Done",
                      !.responses = Append(t.responses, pageData)]
       ELSE [t EXCEPT !.status = "Active",
                      !.responses = Append(t.responses, pageData),
                      !.buffer = itemsToEmit,
                      !.state = [nextUrl |-> IF hasNextPage THEN nextCursor ELSE "",
                                 pageCount |-> st.pageCount + 1,
                                 recordCount |-> newRecordCount]]

\* Stream.mapError(() => new Error('Failed to fetch from Edlink API'))
inlineFetchFails(t, failure) ==
    IF t.status # "Fetching" THEN t
    ELSE [t EXCEPT !.status = "Failed",
                   !.responses = Append(t.responses, failure),
                   !.error = [name |-> "Error",
                              message |-> <<"Failed to fetch from Edlink API">>]]

\* Stream.flatMap((items) => Stream.fromIterable(items)): one item per pull
inlineEmit(t) ==
    IF t.status # "Active" \/ t.buffer = <<>> THEN t
    ELSE [t EXCEPT !.emitted = Append(t.emitted, Head(t.buffer)),
                   !.buffer = Tail(t.buffer)]

inlineConsumerStop(t) ==
    IF t.status \notin {"Active", "Fetching"} THEN t
    ELSE [t EXCEPT !.status = "Stopped"]

\* both paginators are asked for the same stream
InitBoth ==
    /\ edlinkConfig \in EdlinkConfigs
    /\ path \in Paths
    /\ arg \in PaginationConfigs \cup {UndefinedConfig}
    /\ arg # UndefinedConfig
         => edlinkConfig.defaultMaxPages = DefaultMaxPagesDefault
    /\ state = initialState(edlinkConfig, path)
    /\ status = "Active"
    /\ buffer = <<>>
    /\ emitted = <<>>
    /\ requests = <<>>
    /\ responses = <<>>
    /\ error = NoError
    /\ other = NewTraversal(edlinkConfig, path, arg)
    /\ running = 1
    /\ merged = <<>>

\* the consumer's pull reaches both paginators
BothPull ==
    /\ \/ StepNoUrl
       \/ StepPolicyStop(paginationConfig)
       \/ StepRequest(paginationConfig)
    /\ other' = inlinePull(other, paginationConfig)
    /\ UNCHANGED <<running, merged>>

\* the server's page reaches both
BothFetchPage ==
    /\ FetchPage(paginationConfig)
    /\ other' = inlineProcessPage(other, paginationConfig,
                                  responses'[Len(responses')])
    /\ UNCHANGED <<running, merged>>

\* the failure of the request reaches both
BothFetchFails ==
    /\ FetchFails
    /\ other' = inlineFetchFails(other, responses'[Len(responses')])
    /\ UNCHANGED <<running, merged>>

BothEmit ==
    /\ Emit
    /\ other' = inlineEmit(other)
    /\ UNCHANGED <<running, merged>>

BothConsumerStop ==
    /\ ConsumerStop
    /\ other' = inlineConsumerStop(other)
    /\ UNCHANGED <<running, merged>>

NextBoth ==
    \/ BothPull
    \/ BothFetchPage
    \/ BothFetchFails
    \/ BothEmit
    \/ BothConsumerStop

SpecBoth == InitBoth /\ [][NextBoth]_vars

(* C30: given the same pulls and the same answers, the strategy-based and
   the inline paginator have made the same requests, handed out the same
   items and are at the same point, ended or not, cleanly or by an error;
   their recordCount is not compared. *)
ObservationallyEquivalent ==
    /\ other.requests = requests
    /\ other.responses = responses
    /\ other.emitted = emitted
    /\ other.buffer = buffer
    /\ other.status = status
    /\ other.error = NoError <=> error = NoError
    /\ other.state.pageCount = state.pageCount

\* both ended on the record limit, with different recordCount
EquivalentWitness ==
    /\ arg = RecordsConfig(4)
    /\ status = "Done" /\ other.status = "Done"
    /\ Len(requests) = 2
    /\ Len(emitted) = 4
    /\ state.recordCount = 6
    /\ other.state.recordCount = 4

(* ------------------------------------------------------------------ *)
(* Termination under a count limit. The consumer keeps pulling and     *)
(* every request is answered, by a page or by a failure. The limits    *)
(* tried are those the model can fetch in full.                        *)
(* ------------------------------------------------------------------ *)

\* the limit of a pages or records descriptor
LimitOf(config) ==
    IF config.type = "pages" THEN config.maxPages ELSE config.maxRecords

InitFinite ==
    /\ InitLive
    /\ paginationConfig.type \in {"pages", "records"}
    /\ LimitOf(paginationConfig) <= MaxFetches

\* the consumer asks for the next item
ConsumerPulls ==
    /\ \/ StepNoUrl
       \/ StepPolicyStop(paginationConfig)
       \/ StepRequest(paginationConfig)
       \/ Emit
    /\ UNCHANGED pairVars

\* the request in flight is answered
FetchCompletes ==
    /\ \/ FetchFails
       \/ FetchPage(paginationConfig)
    /\ UNCHANGED pairVars

SpecFinite ==
    /\ InitFinite
    /\ [][Next]_vars
    /\ WF_vars(ConsumerPulls)
    /\ WF_vars(FetchCompletes)

(* C31: under pages/N or records/M the traversal makes at most N,
   respectively M, requests (none for a limit below 1) and, pulled on and
   answered, it ends, whatever pages and cursors the server returns. *)
BoundedTermination ==
    /\ [](Len(requests) <= (IF LimitOf(paginationConfig) < 0 THEN 0
                            ELSE LimitOf(paginationConfig)))
    /\ <>(status \in {"Done", "Failed", "Stopped"})

\* the limit of three pages ended a traversal the server would have continued
BoundedWitness ==
    /\ arg = PagesConfig(3)
    /\ status = "Done"
    /\ Len(requests) = 3
    /\ Generous(responses)

----------------------------------------------------------------------------
(* Limits at their edges and the last page *)

\* what a step that fetched a non-empty page says about records
NonEmptyPageEmits ==
    (Len(responses') > Len(responses)
       /\ responses'[Len(responses')].ok
       /\ PageItems(responses'[Len(responses')]) # <<>>)
      => /\ Len(buffer') >= 1
         /\ paginationConfig.type = "records"
              => /\ state.recordCount < paginationConfig.maxRecords
                 /\ paginationConfig.maxRecords - state.recordCount >= 1
                 /\ Len(buffer') <= paginationConfig.maxRecords
                                      - state.recordCount

\* the items handed out by the unfold step so far are no more than maxRecords
WithinMaxRecords ==
    paginationConfig.type = "records"
      => Len(emitted) + Len(buffer) <= paginationConfig.maxRecords

\* the same, a negative maxRecords counting as zero
WithinMaxRecordsOrZero ==
    paginationConfig.type = "records"
      => Len(emitted) + Len(buffer)
           <= (IF paginationConfig.maxRecords < 0 THEN 0
               ELSE paginationConfig.maxRecords)

(* C32, as stated: a step that fetches a non-empty page emits at least one
   item, under records from a state with recordCount < maxRecords, and the
   emitted count is never more than maxRecords in any state. *)
EmittedNeverExceedsLimit ==
    [][NonEmptyPageEmits /\ WithinMaxRecords /\ WithinMaxRecords']_vars

(* C32, amended: a step that fetches a non-empty page emits at least one
   item; under records it starts from recordCount < maxRecords, so the
   slice length is at least 1; the emitted count is never more than
   maxRecords when maxRecords >= 0 and is 0 when maxRecords is negative. *)
EmitsAtLeastOneWithinLimit ==
    [][NonEmptyPageEmits /\ WithinMaxRecordsOrZero
         /\ WithinMaxRecordsOrZero']_vars

\* one record is left of the limit and the page of three gives that one
LastRecordWitness ==
    /\ arg = RecordsConfig(4)
    /\ Len(responses) = 2
    /\ Len(PageItems(responses[1])) = 3
    /\ Len(PageItems(responses[2])) = 3
    /\ Len(buffer) = 1
    /\ Len(emitted) = 3

(* C33: a traversal whose limit is zero or negative, under pages or under
   records, makes no request and emits nothing; its first step ends it
   cleanly. *)
NoFetchForLimitBelowOne ==
    [][(paginationConfig.type \in {"pages", "records"}
          /\ LimitOf(paginationConfig) <= 0)
         => /\ status = "Active"
            /\ state = initialState(edlinkConfig, path)
            /\ requests' = <<>> /\ responses' = <<>>
            /\ emitted' = <<>> /\ buffer' = <<>>
            /\ error' = NoError
            /\ status' \in {"Done", "Stopped"}]_vars

\* a negative record limit ended the traversal at its first step
NegativeLimitWitness ==
    /\ arg = RecordsConfig(-1)
    /\ status = "Done"
    /\ requests = <<>>
    /\ emitted = <<>>

\* the answer is a non-empty page whose cursor is null, missing or empty
IsLastPage(r) == r.ok /\ PageItems(r) # <<>> /\ r.next \in {Null, Undefined, ""}

(* C34: under every policy a non-empty page whose cursor is null, missing
   or the empty string is handed out, cut to the record limit where there
   is one, and leaves nextUrl empty; the next pull ends the traversal
   cleanly without a request. *)
LastPageEndsTraversal ==
    [][/\ (Len(responses') > Len(responses)
             /\ IsLastPage(responses'[Len(responses')]))
            => /\ state'.nextUrl = ""
               /\ status' = "Active"
               /\ buffer' # <<>>
               /\ IsPrefix(buffer', PageItems(responses'[Len(responses')]))
               /\ paginationConfig.type # "records"
                    => buffer' = PageItems(responses'[Len(responses')])
       /\ (Pulling /\ responses # <<>> /\ IsLastPage(LastResponse))
            => /\ requests' = requests
               /\ emitted' = emitted
               /\ error' = NoError
               /\ status' \in {"Done", "Stopped"}]_vars

\* a first page without the cursor field was handed out whole and ended
\* the traversal under the policy all
LastPageWitness ==
    /\ arg = AllConfig
    /\ status = "Done"
    /\ Len(requests) = 1
    /\ responses[1].next = Undefined
    /\ emitted = PageItems(responses[1])
    /\ Len(emitted) = 3

====
